---------------------------- MODULE Spec2Model ----------------------------
(***************************************************************************)
(* Model of rust-cbm1520 (src/src/main.rs): the pen-plotter driver that    *)
(* turns a g-code token stream into Move/Draw commands and sends them over *)
(* the CBM bus through the opencbm primitives.                             *)
(*                                                                         *)
(* The program is sequential; pc is the position of its single thread.     *)
(* Every opencbm call is one step and is recorded in bus, the log of bus   *)
(* operations in the order they are issued.                                *)
(***************************************************************************)
EXTENDS Integers, Sequences, FiniteSets, TLC

VARIABLES
    pc,        \* position of the thread: main, new, plot, for, open, listen,
               \* raw_write, unlisten, close, drop, done
    args,      \* Args: height and width (file and adapter are not inspected)
    driver,    \* Plotter.driver: the adapter handle, 0 before it is opened
    command,   \* the accumulator `command` of plot()
    consumed,  \* the tokens the `for token in gcode` loop has taken so far
    call,      \* the arguments of the running write(addr, sec_addr, data)
    bus,       \* log of the opencbm calls made so far
    panic      \* the panic that ended the run, NoPanic while there is none

vars == <<pc, args, driver, command, consumed, call, bus, panic>>

-----------------------------------------------------------------------------
(* Constants of the program *)

PLOTTER_DEVICE == 6
PLOTTER_SA_XY == 1
PLOTTER_SA_RESET == 7
MAX_HEIGHT == 997
MAX_WIDTH == 447

(* Bounds of the model *)

\* longest token stream of the general specification
MaxLen == 4
\* longest token stream of the specification that starts from any command
MaxLenReset == 3
\* longest token stream of the specification of wrongly typed values
MaxLenTyped == 3
\* longest token stream of the polyline specification
MaxLenPolyline == 5

-----------------------------------------------------------------------------
(* Option<u32> *)

None == <<>>
Some(v) == <<v>>
is_some(o) == Len(o) = 1
unwrap(o) == o[1]

-----------------------------------------------------------------------------
(* g_code::emit::Token and Value.  A Float carries its value in tenths     *)
(* (57 is 5.7); an Integer carries its value.                              *)

Field(letters, vt, v) == [tok |-> "Field", letters |-> letters, vt |-> vt, v |-> v]
Comment == [tok |-> "Comment", letters |-> "", vt |-> "", v |-> 0]

X(tenths) == Field("X", "Float", tenths)
Y(tenths) == Field("Y", "Float", tenths)
ToolState(n) == Field("Z", "Integer", n)

\* the streams of the general specification
Tokens ==
    { ToolState(0), ToolState(1), ToolState(2),
      X(57), X(100), X(-15), Y(32), Y(200),
      Field("G", "Integer", 1), Comment,
      Field("X", "Integer", 3), Field("Z", "Float", 10) }

\* the streams of the polyline specification
PolylineTokens == { ToolState(1), X(10), Y(10), X(20), Y(20) }

\* the streams of the specification that starts from any command
ResetTokens ==
    { ToolState(0), ToolState(2), X(57), Y(32), Field("G", "Integer", 1), Comment }

\* the streams of the specification of wrongly typed values
TypedTokens ==
    { ToolState(0), ToolState(1), X(57), Y(32),
      Field("X", "Integer", 3), Field("Y", "Integer", 4), Field("Y", "String", 0),
      Field("Z", "Float", 0), Field("Z", "Float", 10), Field("Z", "Float", 20) }

\* what the opencbm calls can return (0 is success)
RetCodes == {-1, 0, 1}

\* outcome of reading and parsing the input file
FileResults == {"ok", "unreadable", "unparsable"}

-----------------------------------------------------------------------------
(* Commands *)

new_move == [kind |-> "Move", x |-> None, y |-> None]
new_draw == [kind |-> "Draw", x |-> None, y |-> None]
Reset == [kind |-> "Reset", x |-> None, y |-> None]

is_ready(c) ==
    CASE c.kind = "Move" -> is_some(c.x) /\ is_some(c.y)
      [] c.kind = "Draw" -> is_some(c.x) /\ is_some(c.y)
      [] OTHER -> TRUE

\* mutant: setting x rebuilds the options and so forgets y
set_x_forgets_y(c, x) ==
    CASE c.kind = "Move" -> [c EXCEPT !.x = Some(x), !.y = None]
      [] c.kind = "Draw" -> [c EXCEPT !.x = Some(x), !.y = None]
      [] OTHER -> c

set_x(c, x) ==
    CASE c.kind = "Move" -> [c EXCEPT !.x = Some(x)]
      [] c.kind = "Draw" -> [c EXCEPT !.x = Some(x)]
      [] OTHER -> c

set_y(c, y) ==
    CASE c.kind = "Move" -> [c EXCEPT !.y = Some(y)]
      [] c.kind = "Draw" -> [c EXCEPT !.y = Some(y)]
      [] OTHER -> c

\* mutant: rounds to the nearest integer instead of truncating
f64_round_as_u32(tenths) == IF tenths < 0 THEN 0 ELSE (tenths + 5) \div 10

\* `value as u32` of an f64 given in tenths: truncation toward zero, and a
\* negative value saturates to 0
f64_as_u32(tenths) == IF tenths < 0 THEN 0 ELSE tenths \div 10

-----------------------------------------------------------------------------
(* Panics *)

NoPanic == [msg |-> "", a |-> 0, b |-> 0]
Panic(msg, a, b) == [msg |-> msg, a |-> a, b |-> b]

-----------------------------------------------------------------------------
(* Bus operations as logged *)

BusOp(op, addr, sa, data, res) ==
    [op |-> op, addr |-> addr, sa |-> sa, data |-> data, res |-> res]

NoCall == [addr |-> 0, sec_addr |-> 0, data |-> <<>>]

-----------------------------------------------------------------------------
(* Formatting: `{}` of a u32 as ASCII bytes *)

\* mutant: emits the digits least significant first
RECURSIVE fmt_u32_lsb_first(_)
fmt_u32_lsb_first(n) ==
    IF n < 10 THEN <<48 + n>>
    ELSE <<48 + (n % 10)>> \o fmt_u32_lsb_first(n \div 10)

RECURSIVE fmt_u32(_)
fmt_u32(n) ==
    IF n < 10 THEN <<48 + n>>
    ELSE Append(fmt_u32(n \div 10), 48 + (n % 10))

\* CString::new(format!("M,{},{}\n", x, y)).into_bytes_with_nul()
move_payload(c) ==
    <<77, 44>> \o fmt_u32(unwrap(c.x)) \o <<44>> \o fmt_u32(unwrap(c.y)) \o <<10>> \o <<0>>

\* CString::new(format!("D,{},{}", x, y)).into_bytes_with_nul()
draw_payload(c) ==
    <<68, 44>> \o fmt_u32(unwrap(c.x)) \o <<44>> \o fmt_u32(unwrap(c.y)) \o <<0>>

-----------------------------------------------------------------------------
(* The token match of the loop body: the accumulator after the token, and  *)
(* whether the token is fatal                                              *)

\* mutant: an unrecognised tool state is ignored like an unknown letter
tool_state_ignored(t) == FALSE

tool_state_fatal(t) ==
    t.tok = "Field" /\ t.letters = "Z" /\ t.vt = "Integer" /\ t.v \notin {0, 1}

\* mutant: a tool-state token changes the variant and keeps the coordinates
apply_token_keep(c, t) ==
    IF t.tok # "Field" THEN c
    ELSE CASE t.letters = "X" -> IF t.vt = "Float" THEN set_x(c, f64_as_u32(t.v)) ELSE c
           [] t.letters = "Y" -> IF t.vt = "Float" THEN set_y(c, f64_as_u32(t.v)) ELSE c
           [] t.letters = "Z" ->
                IF t.vt = "Integer"
                THEN CASE t.v = 0 -> [c EXCEPT !.kind = "Draw"]
                       [] t.v = 1 -> [c EXCEPT !.kind = "Move"]
                       [] OTHER -> c
                ELSE c
           [] OTHER -> c

\* mutant: tool state 1 yields a Reset
apply_token_reset(c, t) ==
    IF t.tok # "Field" THEN c
    ELSE CASE t.letters = "X" -> IF t.vt = "Float" THEN set_x(c, f64_as_u32(t.v)) ELSE c
           [] t.letters = "Y" -> IF t.vt = "Float" THEN set_y(c, f64_as_u32(t.v)) ELSE c
           [] t.letters = "Z" ->
                IF t.vt = "Integer"
                THEN CASE t.v = 0 -> new_draw
                       [] t.v = 1 -> Reset
                       [] OTHER -> c
                ELSE c
           [] OTHER -> c

\* mutant: any numeric value is accepted, converted to what the tag needs
apply_token_coerce(c, t) ==
    IF t.tok # "Field" THEN c
    ELSE CASE t.letters = "X" ->
                IF t.vt = "Float" THEN set_x(c, f64_as_u32(t.v))
                ELSE IF t.vt = "Integer" THEN set_x(c, t.v) ELSE c
           [] t.letters = "Y" ->
                IF t.vt = "Float" THEN set_y(c, f64_as_u32(t.v))
                ELSE IF t.vt = "Integer" THEN set_y(c, t.v) ELSE c
           [] t.letters = "Z" ->
                IF t.vt \in {"Integer", "Float"}
                THEN LET n == IF t.vt = "Float" THEN f64_as_u32(t.v) ELSE t.v
                     IN CASE n = 0 -> new_draw
                          [] n = 1 -> new_move
                          [] OTHER -> c
                ELSE c
           [] OTHER -> c

apply_token(c, t) ==
    IF t.tok # "Field" THEN c
    ELSE CASE t.letters = "X" -> IF t.vt = "Float" THEN set_x(c, f64_as_u32(t.v)) ELSE c
           [] t.letters = "Y" -> IF t.vt = "Float" THEN set_y(c, f64_as_u32(t.v)) ELSE c
           [] t.letters = "Z" ->
                IF t.vt = "Integer"
                THEN CASE t.v = 0 -> new_draw
                       [] t.v = 1 -> new_move
                       [] OTHER -> c
                ELSE c
           [] OTHER -> c

-----------------------------------------------------------------------------
(* Init: the command line has been parsed *)

Init ==
    /\ pc = "main"
    /\ args \in [height : {MAX_HEIGHT, MAX_HEIGHT + 1}, width : {MAX_WIDTH, MAX_WIDTH + 1}]
    /\ driver = 0
    /\ command = new_move
    /\ consumed = <<>>
    /\ call = NoCall
    /\ bus = <<>>
    /\ panic = NoPanic

\* mutant: the canvas is rejected only when both dimensions are too large
main_both ==
    /\ pc = "main"
    /\ IF args.height > MAX_HEIGHT /\ args.width > MAX_WIDTH
       THEN /\ panic' = Panic("Invalid width/height", 0, 0)
            /\ pc' = "done"
       ELSE /\ pc' = "new"
            /\ UNCHANGED panic
    /\ UNCHANGED <<args, driver, command, consumed, call, bus>>

\* main(): the canvas check
main ==
    /\ pc = "main"
    /\ IF args.height > MAX_HEIGHT \/ args.width > MAX_WIDTH
       THEN /\ panic' = Panic("Invalid width/height", 0, 0)
            /\ pc' = "done"
       ELSE /\ pc' = "new"
            /\ UNCHANGED panic
    /\ UNCHANGED <<args, driver, command, consumed, call, bus>>

\* mutant: the result of the adapter open is not checked
Plotter_new_unchecked ==
    /\ pc = "new"
    /\ \E res \in RetCodes :
          bus' = Append(bus, BusOp("driver_open_ex", 0, 0, <<>>, res))
    /\ driver' = 1
    /\ pc' = "plot"
    /\ UNCHANGED <<args, command, consumed, call, panic>>

\* Plotter::new(): open the adapter; no Plotter exists when it panics
Plotter_new ==
    /\ pc = "new"
    /\ \E res \in RetCodes :
          /\ bus' = Append(bus, BusOp("driver_open_ex", 0, 0, <<>>, res))
          /\ IF res # 0
             THEN /\ panic' = Panic("failed to open adapter with error", res, 0)
                  /\ pc' = "done"
                  /\ UNCHANGED driver
             ELSE /\ driver' = 1
                  /\ pc' = "plot"
                  /\ UNCHANGED panic
    /\ UNCHANGED <<args, command, consumed, call>>

\* mutant: the accumulator starts as a Draw
plot_convert_draw ==
    /\ pc = "plot"
    /\ \E file \in FileResults :
          CASE file = "unreadable" ->
                 /\ panic' = Panic("failed to read file", 0, 0)
                 /\ pc' = "drop"
                 /\ UNCHANGED command
            [] file = "unparsable" ->
                 /\ panic' = Panic("failed to parse file", 0, 0)
                 /\ pc' = "drop"
                 /\ UNCHANGED command
            [] OTHER ->
                 /\ command' = new_draw
                 /\ pc' = "for"
                 /\ UNCHANGED panic
    /\ UNCHANGED <<args, driver, consumed, call, bus>>

\* plot(), up to the loop: read the file, parse it, convert it
plot_convert ==
    /\ pc = "plot"
    /\ \E file \in FileResults :
          CASE file = "unreadable" ->
                 /\ panic' = Panic("failed to read file", 0, 0)
                 /\ pc' = "drop"
                 /\ UNCHANGED command
            [] file = "unparsable" ->
                 /\ panic' = Panic("failed to parse file", 0, 0)
                 /\ pc' = "drop"
                 /\ UNCHANGED command
            [] OTHER ->
                 /\ command' = new_move
                 /\ pc' = "for"
                 /\ UNCHANGED panic
    /\ UNCHANGED <<args, driver, consumed, call, bus>>

\* mutant: the accumulator is emptied once its command has been handed over
plot_token_reset_after(t) ==
    /\ pc = "for"
    /\ consumed' = Append(consumed, t)
    /\ IF tool_state_fatal(t)
       THEN /\ panic' = Panic("unrecognised tool command!", 0, 0)
            /\ pc' = "drop"
            /\ UNCHANGED <<command, call>>
       ELSE LET c2 == apply_token(command, t)
            IN /\ UNCHANGED panic
               /\ IF is_ready(c2)
                  THEN /\ call' = [addr |-> PLOTTER_DEVICE, sec_addr |-> PLOTTER_SA_XY,
                                   data |-> IF c2.kind = "Move" THEN move_payload(c2)
                                            ELSE draw_payload(c2)]
                       /\ command' = [c2 EXCEPT !.x = None, !.y = None]
                       /\ pc' = "open"
                  ELSE /\ command' = c2
                       /\ pc' = "for"
                       /\ UNCHANGED call
    /\ UNCHANGED <<args, driver, bus>>

\* one iteration of the loop, up to the first bus call it makes
plot_token(t) ==
    /\ pc = "for"
    /\ consumed' = Append(consumed, t)
    /\ IF tool_state_fatal(t)
       THEN /\ panic' = Panic("unrecognised tool command!", 0, 0)
            /\ pc' = "drop"
            /\ UNCHANGED <<command, call>>
       ELSE /\ command' = apply_token(command, t)
            /\ UNCHANGED panic
            /\ IF is_ready(command')
               THEN CASE command'.kind = "Reset" ->
                           /\ pc' = "reset_listen"
                           /\ UNCHANGED call
                      [] command'.kind = "Move" ->
                           /\ call' = [addr |-> PLOTTER_DEVICE, sec_addr |-> PLOTTER_SA_XY,
                                       data |-> move_payload(command')]
                           /\ pc' = "open"
                      [] command'.kind = "Draw" ->
                           /\ call' = [addr |-> PLOTTER_DEVICE, sec_addr |-> PLOTTER_SA_XY,
                                       data |-> draw_payload(command')]
                           /\ pc' = "open"
               ELSE /\ pc' = "for"
                    /\ UNCHANGED call
    /\ UNCHANGED <<args, driver, bus>>

\* mutant: an accumulator left incomplete at the end of the stream is an error
plot_end_strict ==
    /\ pc = "for"
    /\ pc' = "drop"
    /\ panic' = IF is_ready(command) THEN panic ELSE Panic("incomplete command", 0, 0)
    /\ UNCHANGED <<args, driver, command, consumed, call, bus>>

\* the token stream is exhausted: plot() returns and self goes out of scope
plot_end ==
    /\ pc = "for"
    /\ pc' = "drop"
    /\ UNCHANGED <<args, driver, command, consumed, call, bus, panic>>

\* mutant: the result of the channel open is not checked
write_open_unchecked ==
    /\ pc = "open"
    /\ \E open_err \in RetCodes :
          bus' = Append(bus, BusOp("open", call.addr, call.sec_addr, <<>>, open_err))
    /\ pc' = "listen"
    /\ UNCHANGED <<args, driver, command, consumed, call, panic>>

\* write(): cbm_open, the only checked call
write_open ==
    /\ pc = "open"
    /\ \E open_err \in RetCodes :
          /\ bus' = Append(bus, BusOp("open", call.addr, call.sec_addr, <<>>, open_err))
          /\ IF open_err # 0
             THEN /\ panic' = Panic("failed to open address", call.addr, call.sec_addr)
                  /\ pc' = "drop"
             ELSE /\ pc' = "listen"
                  /\ UNCHANGED panic
    /\ UNCHANGED <<args, driver, command, consumed, call>>

\* write(): cbm_listen, result discarded
write_listen ==
    /\ pc = "listen"
    /\ \E res \in RetCodes :
          bus' = Append(bus, BusOp("listen", call.addr, call.sec_addr, <<>>, 0))
    /\ pc' = "raw_write"
    /\ UNCHANGED <<args, driver, command, consumed, call, panic>>

\* mutant: a failed write is fatal
write_raw_write_checked ==
    /\ pc = "raw_write"
    /\ bus' = Append(bus, BusOp("raw_write", 0, 0, call.data, 0))
    /\ \E res \in RetCodes :
          IF res # 0
          THEN /\ panic' = Panic("failed to write", res, 0)
               /\ pc' = "drop"
          ELSE /\ pc' = "unlisten"
               /\ UNCHANGED panic
    /\ UNCHANGED <<args, driver, command, consumed, call>>

\* write(): cbm_raw_write, result discarded
write_raw_write ==
    /\ pc = "raw_write"
    /\ \E res \in RetCodes :
          bus' = Append(bus, BusOp("raw_write", 0, 0, call.data, 0))
    /\ pc' = "unlisten"
    /\ UNCHANGED <<args, driver, command, consumed, call, panic>>

\* write(): cbm_unlisten, result discarded
write_unlisten ==
    /\ pc = "unlisten"
    /\ \E res \in RetCodes :
          bus' = Append(bus, BusOp("unlisten", 0, 0, <<>>, 0))
    /\ pc' = "close"
    /\ UNCHANGED <<args, driver, command, consumed, call, panic>>

\* mutant: the command is sent again for as long as it is ready
write_close_resend ==
    /\ pc = "close"
    /\ \E res \in RetCodes :
          bus' = Append(bus, BusOp("close", call.addr, call.sec_addr, <<>>, 0))
    /\ pc' = IF is_ready(command) /\ Len(bus) < 12 THEN "open" ELSE "for"
    /\ UNCHANGED <<args, driver, command, consumed, call, panic>>

\* write(): cbm_close, result discarded; back to the loop
write_close ==
    /\ pc = "close"
    /\ \E res \in RetCodes :
          bus' = Append(bus, BusOp("close", call.addr, call.sec_addr, <<>>, 0))
    /\ pc' = "for"
    /\ call' = NoCall
    /\ UNCHANGED <<args, driver, command, consumed, panic>>

\* mutant: the reset is addressed to the XY sub-address
reset_listen_xy ==
    /\ pc = "reset_listen"
    /\ \E res \in RetCodes :
          bus' = Append(bus, BusOp("listen", PLOTTER_DEVICE, PLOTTER_SA_XY, <<>>, 0))
    /\ pc' = "reset_raw_write"
    /\ UNCHANGED <<args, driver, command, consumed, call, panic>>

\* the Reset arm: cbm_listen on the reset sub-address, result discarded
reset_listen ==
    /\ pc = "reset_listen"
    /\ \E res \in RetCodes :
          bus' = Append(bus, BusOp("listen", PLOTTER_DEVICE, PLOTTER_SA_RESET, <<>>, 0))
    /\ pc' = "reset_raw_write"
    /\ UNCHANGED <<args, driver, command, consumed, call, panic>>

\* the Reset arm: cbm_raw_write of a null buffer of length 0, result discarded
reset_raw_write ==
    /\ pc = "reset_raw_write"
    /\ \E res \in RetCodes :
          bus' = Append(bus, BusOp("raw_write", 0, 0, <<>>, 0))
    /\ pc' = "reset_unlisten"
    /\ UNCHANGED <<args, driver, command, consumed, call, panic>>

\* the Reset arm: cbm_unlisten, result discarded; back to the loop
reset_unlisten ==
    /\ pc = "reset_unlisten"
    /\ \E res \in RetCodes :
          bus' = Append(bus, BusOp("unlisten", 0, 0, <<>>, 0))
    /\ pc' = "for"
    /\ UNCHANGED <<args, driver, command, consumed, call, panic>>

\* mutant: the handle is forgotten instead of closed
drop_no_close ==
    /\ pc = "drop"
    /\ pc' = "done"
    /\ UNCHANGED <<args, driver, command, consumed, call, bus, panic>>

\* Drop for Plotter: runs when plot() returns and when a panic unwinds it
drop ==
    /\ pc = "drop"
    /\ bus' = Append(bus, BusOp("driver_close", 0, 0, <<>>, 0))
    /\ pc' = "done"
    /\ UNCHANGED <<args, driver, command, consumed, call, panic>>

\* the program over the token streams of at most maxLen tokens from Toks
Step(Toks, maxLen) ==
    \/ main
    \/ Plotter_new
    \/ plot_convert
    \/ \E t \in Toks : Len(consumed) < maxLen /\ plot_token(t)
    \/ plot_end
    \/ write_open
    \/ write_listen
    \/ write_raw_write
    \/ write_unlisten
    \/ write_close
    \/ drop

Next == Step(Tokens, MaxLen)

Spec == Init /\ [][Next]_vars

NextPolyline == Step(PolylineTokens, MaxLenPolyline)

SpecPolyline == Init /\ [][NextPolyline]_vars

\* The loop of plot() entered with any of the three command variants in the
\* accumulator.  No run of the program holds a Reset there (nothing in
\* plot() constructs one); this specification exercises the arm of the
\* match that handles it.
InitReset ==
    /\ pc = "for"
    /\ args = [height |-> MAX_HEIGHT, width |-> MAX_WIDTH]
    /\ driver = 1
    /\ command \in {new_move, new_draw, Reset}
    /\ consumed = <<>>
    /\ call = NoCall
    /\ bus = <<BusOp("driver_open_ex", 0, 0, <<>>, 0)>>
    /\ panic = NoPanic

NextReset ==
    \/ \E t \in ResetTokens : Len(consumed) < MaxLenReset /\ plot_token(t)
    \/ plot_end
    \/ write_open
    \/ write_listen
    \/ write_raw_write
    \/ write_unlisten
    \/ write_close
    \/ reset_listen
    \/ reset_raw_write
    \/ reset_unlisten
    \/ drop

SpecReset == InitReset /\ [][NextReset]_vars

NextTyped == Step(TypedTokens, MaxLenTyped)

SpecTyped == Init /\ [][NextTyped]_vars

-----------------------------------------------------------------------------
(* What the token history says, independently of the accumulator *)

Last(s) == s[Len(s)]

\* a tool-state token that replaces the accumulator
Replaces(t) == t.tok = "Field" /\ t.letters = "Z" /\ t.vt = "Integer" /\ t.v \in {0, 1}
\* a tool-state token with an integer that is neither 0 nor 1
UnrecognisedToolState(t) ==
    t.tok = "Field" /\ t.letters = "Z" /\ t.vt = "Integer" /\ t.v # 0 /\ t.v # 1
\* a token for which the loop calls set_x, set_y
CallsSetX(t) == t.tok = "Field" /\ t.letters = "X" /\ t.vt = "Float"
CallsSetY(t) == t.tok = "Field" /\ t.letters = "Y" /\ t.vt = "Float"

Max(S) == CHOOSE m \in S : \A n \in S : n <= m

\* position of the last replacing token of h, 0 when there is none
LastReplace(h) == Max({0} \cup {i \in 1..Len(h) : Replaces(h[i])})
\* positions of the tokens after the last replacement
Since(h) == (LastReplace(h) + 1)..Len(h)
XCalled(h) == \E i \in Since(h) : CallsSetX(h[i])
YCalled(h) == \E i \in Since(h) : CallsSetY(h[i])

\* the payloads written so far, in order
Writes(b) == SelectSeq(b, LAMBDA e : e.op = "raw_write")
Payloads(b) == [i \in 1..Len(Writes(b)) |-> Writes(b)[i].data]
\* the bus operations of a run without the closing of the adapter
OpCount(b, op) == Cardinality({i \in 1..Len(b) : b[i].op = op})

WritePcs == {"open", "listen", "raw_write", "unlisten", "close"}
TxOps == <<"open", "listen", "raw_write", "unlisten", "close">>

-----------------------------------------------------------------------------
\* C1: for the stream [ToolState(1), X(1.0), Y(1.0), X(2.0), Y(2.0)] with
\* every channel open succeeding, the finished run has written exactly two
\* Move payloads, (1,1) then (2,2), and made exactly two transactions.
PolylineStream == <<ToolState(1), X(10), Y(10), X(20), Y(20)>>

C1_TwoMoves ==
    (pc = "done" /\ panic = NoPanic /\ consumed = PolylineStream)
        => /\ Payloads(bus) = << <<77, 44, 49, 44, 49, 10, 0>>, <<77, 44, 50, 44, 50, 10, 0>> >>
           /\ OpCount(bus, "open") = 2

-----------------------------------------------------------------------------
\* C2: every channel open that returned 0 is followed by listen(6,1),
\* raw_write(payload), unlisten, close(6,1), in that order and with nothing in
\* between, whatever those calls return: the operations not yet in the log
\* are the ones the thread is about to issue; no listen, raw_write, unlisten
\* or close occurs outside such a group; and a ready command is never left
\* at the head of the loop without its transaction.
C2_TransactionSequence ==
    /\ \A i \in 1..Len(bus) :
          (bus[i].op = "open" /\ bus[i].res = 0) =>
             /\ bus[i].addr = PLOTTER_DEVICE /\ bus[i].sa = PLOTTER_SA_XY
             /\ \A k \in 1..4 :
                   /\ i + k <= Len(bus) =>
                         /\ bus[i + k].op = TxOps[k + 1]
                         /\ k \in {1, 4} =>
                               bus[i + k].addr = PLOTTER_DEVICE /\ bus[i + k].sa = PLOTTER_SA_XY
                   /\ i + k = Len(bus) + 1 => pc = TxOps[k + 1]
             /\ (i + 2 <= Len(bus) /\ Len(bus) < i + 4) => bus[i + 2].data = call.data
    /\ \A j \in 1..Len(bus) :
          /\ bus[j].op = "listen" => (j > 1 /\ bus[j - 1].op = "open" /\ bus[j - 1].res = 0)
          /\ bus[j].op = "raw_write" => (j > 1 /\ bus[j - 1].op = "listen")
          /\ bus[j].op = "unlisten" => (j > 1 /\ bus[j - 1].op = "raw_write")
          /\ bus[j].op = "close" => (j > 1 /\ bus[j - 1].op = "unlisten")
    /\ pc = "open" => (is_ready(command) /\ panic = NoPanic)
    /\ (pc = "for" /\ is_ready(command)) => (bus # <<>> /\ Last(bus).op = "close")

\* a second transaction has just completed
C2_Witness ==
    /\ pc = "for"
    /\ Len(bus) = 11
    /\ Last(bus).op = "close"
    /\ command.kind = "Draw"

-----------------------------------------------------------------------------
\* C3: once the adapter has been opened successfully, a finished run has
\* called driver_close exactly once, as its last bus operation, and an
\* unfinished run has not called it yet.
C3_CloseExactlyOnce ==
    (bus # <<>> /\ bus[1].res = 0) =>
        /\ pc = "done" => (OpCount(bus, "driver_close") = 1 /\ Last(bus).op = "driver_close")
        /\ pc # "done" => OpCount(bus, "driver_close") = 0

\* a run that a failed channel open ended, after one whole transaction
C3_Witness ==
    /\ pc = "done"
    /\ panic.msg = "failed to open address"
    /\ Len(bus) = 8
    /\ Last(bus).op = "driver_close"

-----------------------------------------------------------------------------
\* C4: the accumulator is ready exactly when, since the last tool-state token
\* that replaced it, set_x and set_y have both been called, in any order and
\* any number of times; Reset is always ready.
C4_ReadyIffBothSet ==
    /\ is_ready(command) <=> (XCalled(consumed) /\ YCalled(consumed))
    /\ is_ready(Reset)

\* ready with Y before X, and a further X after it became ready
C4_Witness ==
    /\ is_ready(command)
    /\ Len(consumed) = 4
    /\ Replaces(consumed[1])
    /\ CallsSetY(consumed[2]) /\ CallsSetX(consumed[3]) /\ CallsSetX(consumed[4])

-----------------------------------------------------------------------------
\* C5: after a tool-state token 0 the accumulator is a Draw with no
\* coordinate, after 1 a Move with no coordinate; no transaction is started
\* for that token, and a transaction runs only when an X and a Y token have
\* arrived since the last replacement.
C5_ToolStateReplaces ==
    /\ (consumed # <<>> /\ Replaces(Last(consumed))) =>
          /\ Last(consumed).v = 0 => command = [kind |-> "Draw", x |-> <<>>, y |-> <<>>]
          /\ Last(consumed).v = 1 => command = [kind |-> "Move", x |-> <<>>, y |-> <<>>]
          /\ pc \in {"for", "drop", "done"}
          /\ call = NoCall
    /\ pc \in WritePcs => (XCalled(consumed) /\ YCalled(consumed))

\* a tool-state token 0 that arrived while the accumulator was a ready Move
C5_Witness ==
    /\ Len(consumed) = 3
    /\ CallsSetX(consumed[1]) /\ CallsSetY(consumed[2])
    /\ consumed[3] = ToolState(0)
    /\ command = new_draw
    /\ Last(bus).op = "close"

-----------------------------------------------------------------------------
\* C6: a tool-state token with an integer other than 0 and 1 ends the run at
\* once: consuming it issues no bus operation and panics, and after that
\* panic no token is consumed and the one step left is the closing of the
\* adapter, appended to an otherwise untouched log.
C6_FatalToolState ==
    [][ /\ (consumed' # consumed /\ UnrecognisedToolState(Last(consumed'))) =>
              /\ bus' = bus
              /\ pc' = "drop"
              /\ panic' = Panic("unrecognised tool command!", 0, 0)
        /\ panic.msg = "unrecognised tool command!" =>
              /\ consumed' = consumed
              /\ bus' = Append(bus, BusOp("driver_close", 0, 0, <<>>, 0))
              /\ pc' = "done" ]_vars

\* the fatal token arrived while the accumulator was ready, after one
\* transaction, and the run is over
C6_Witness ==
    /\ pc = "done"
    /\ panic.msg = "unrecognised tool command!"
    /\ is_ready(command)
    /\ Len(consumed) = 3
    /\ Len(bus) = 7
    /\ bus[6].op = "close" /\ bus[7].op = "driver_close"

-----------------------------------------------------------------------------
\* C7: a channel open that returns non-zero panics with the address pair;
\* nothing of the transaction follows it, no token is consumed afterwards,
\* and the one step left is the closing of the adapter.
C7_OpenFailureFatal ==
    [][ /\ pc = "open" =>
              /\ Len(bus') = Len(bus) + 1
              /\ Last(bus').op = "open"
              /\ Last(bus').res = 0 => (pc' = "listen" /\ panic' = NoPanic)
              /\ Last(bus').res # 0 =>
                    /\ pc' = "drop"
                    /\ panic' = Panic("failed to open address", PLOTTER_DEVICE, PLOTTER_SA_XY)
        /\ panic.msg = "failed to open address" =>
              /\ consumed' = consumed
              /\ bus' = Append(bus, BusOp("driver_close", 0, 0, <<>>, 0))
              /\ pc' = "done" ]_vars

\* the second transaction's open failed: the log ends open, driver_close
C7_Witness ==
    /\ pc = "done"
    /\ panic = Panic("failed to open address", 6, 1)
    /\ Len(bus) = 8
    /\ bus[7].op = "open" /\ bus[7].res # 0
    /\ bus[8].op = "driver_close"
    /\ Len(consumed) < MaxLen

-----------------------------------------------------------------------------
\* C8: when the adapter open returns non-zero the run is over with that one
\* bus operation: no token consumed, no channel operation, no driver_close,
\* and the code in the panic.
C8_AdapterOpenFailure ==
    (bus # <<>> /\ bus[1].res # 0) =>
        /\ bus[1].op = "driver_open_ex"
        /\ Len(bus) = 1
        /\ consumed = <<>>
        /\ pc = "done"
        /\ panic = Panic("failed to open adapter with error", bus[1].res, 0)

C8_Witness ==
    /\ pc = "done"
    /\ bus = <<BusOp("driver_open_ex", 0, 0, <<>>, -1)>>
    /\ panic.a = -1

-----------------------------------------------------------------------------
\* Decimal digits read back: the number a digit string denotes, and whether
\* the string is the decimal rendering of n without leading zeros or padding
RECURSIVE DecValue(_)
DecValue(d) ==
    IF d = <<>> THEN 0 ELSE 10 * DecValue(SubSeq(d, 1, Len(d) - 1)) + (d[Len(d)] - 48)

IsDecimalOf(d, n) ==
    /\ Len(d) >= 1
    /\ \A i \in 1..Len(d) : d[i] \in 48..57
    /\ Len(d) > 1 => d[1] # 48
    /\ DecValue(d) = n

\* data is head, the decimal of x, a comma, the decimal of y, tail
IsLine(data, head, x, y, tail) ==
    \E i \in 1..Len(data) : \E j \in i..Len(data) :
        /\ SubSeq(data, 1, Len(head)) = head
        /\ IsDecimalOf(SubSeq(data, Len(head) + 1, i), x)
        /\ i + 1 <= Len(data) /\ data[i + 1] = 44
        /\ IsDecimalOf(SubSeq(data, i + 2, j), y)
        /\ SubSeq(data, j + 1, Len(data)) = tail

\* C9: the payload just written for a Move with coordinates (x,y) is the
\* bytes of M,<x>,<y> then newline then null, for a Draw the bytes of
\* D,<x>,<y> then null without newline, <x> and <y> in decimal without
\* leading zeros; it was addressed to device 6, sub-address 1.
C9_PayloadFormat ==
    (bus # <<>> /\ Last(bus).op = "raw_write") =>
        /\ bus[Len(bus) - 1].op = "listen"
        /\ bus[Len(bus) - 1].addr = 6 /\ bus[Len(bus) - 1].sa = 1
        /\ bus[Len(bus) - 2].op = "open"
        /\ bus[Len(bus) - 2].addr = 6 /\ bus[Len(bus) - 2].sa = 1
        /\ command.kind \in {"Move", "Draw"}
        /\ command.kind = "Move" =>
              IsLine(Last(bus).data, <<77, 44>>, command.x[1], command.y[1], <<10, 0>>)
        /\ command.kind = "Draw" =>
              IsLine(Last(bus).data, <<68, 44>>, command.x[1], command.y[1], <<0>>)

\* [ToolState(1), X(10.0), Y(20.0)] has written M,10,20 newline null
C9_Witness ==
    /\ consumed = <<ToolState(1), X(100), Y(200)>>
    /\ Len(bus) = 4
    /\ Last(bus) = BusOp("raw_write", 0, 0, <<77, 44, 49, 48, 44, 50, 48, 10, 0>>, 0)

-----------------------------------------------------------------------------
\* the value of the last X (Y) coordinate token since the last replacement
LastXToken(h) == h[Max({i \in Since(h) : CallsSetX(h[i])})]
LastYToken(h) == h[Max({i \in Since(h) : CallsSetY(h[i])})]

\* n is the integer part of the non-negative value of tenths/10
IsFloorOf(n, tenths) == 10 * n <= tenths /\ tenths < 10 * n + 10

\* C10: a stored coordinate is the floor of the non-negative value of the
\* token that set it (truncation, never rounding up), and what is written
\* carries that coordinate.
C10_Truncation ==
    /\ (XCalled(consumed) /\ LastXToken(consumed).v >= 0) =>
          (is_some(command.x) /\ IsFloorOf(command.x[1], LastXToken(consumed).v))
    /\ (YCalled(consumed) /\ LastYToken(consumed).v >= 0) =>
          (is_some(command.y) /\ IsFloorOf(command.y[1], LastYToken(consumed).v))

\* [ToolState(0), X(5.7), Y(3.2)] ran to its end with the single payload D,5,3 null
C10_Witness ==
    /\ pc = "done"
    /\ consumed = <<ToolState(0), X(57), Y(32)>>
    /\ Payloads(bus) = << <<68, 44, 53, 44, 51, 0>> >>
    /\ OpCount(bus, "open") = 1

-----------------------------------------------------------------------------
\* C11: with height above 997 or width above 447 the run ends in main with
\* the configuration panic and an empty bus log (the adapter is never
\* opened); with height at most 997 and width at most 447 the run goes on
\* to open the adapter.
C11_CanvasBounds ==
    /\ (args.height > 997 \/ args.width > 447) =>
          /\ bus = <<>>
          /\ consumed = <<>>
          /\ pc \in {"main", "done"}
          /\ pc = "done" => panic = Panic("Invalid width/height", 0, 0)
    /\ (args.height <= 997 /\ args.width <= 447) =>
          /\ panic.msg # "Invalid width/height"
          /\ pc \notin {"main", "new"} => (bus # <<>> /\ bus[1].op = "driver_open_ex")

\* the largest accepted canvas has opened the adapter
C11_Witness ==
    /\ args = [height |-> 997, width |-> 447]
    /\ bus # <<>> /\ bus[1].op = "driver_open_ex"

-----------------------------------------------------------------------------
\* C12: when the file cannot be read or parsed, no bus primitive, the
\* adapter open included, has been called by the time the failure is raised.
C12_InputFailureBeforeHardware ==
    panic.msg \in {"failed to read file", "failed to parse file"} => bus = <<>>

-----------------------------------------------------------------------------
\* the payload the loop body builds for a ready Move or Draw
command_payload(c) == IF c.kind = "Move" THEN move_payload(c) ELSE draw_payload(c)

\* the payloads the loop writes for the token stream h from accumulator c,
\* when no token is fatal and every channel open succeeds
RECURSIVE RunPayloads(_, _)
RunPayloads(c, h) ==
    IF h = <<>> THEN <<>>
    ELSE LET c2 == apply_token(c, Head(h))
         IN (IF is_ready(c2) THEN <<command_payload(c2)>> ELSE <<>>)
                \o RunPayloads(c2, Tail(h))

\* a field token whose tag is not X, Y or Z
OtherTag(t) == t.tok = "Field" /\ t.letters \notin {"X", "Y", "Z"}
WithoutOtherTags(h) == SelectSeq(h, LAMBDA t : ~OtherTag(t))

\* C13: a run that completes has written exactly the payloads that the
\* stream with every token of another tag removed produces.
C13_OtherTagsIgnored ==
    (pc = "done" /\ panic = NoPanic /\ consumed # <<>>) =>
        Payloads(bus) = RunPayloads(new_move, WithoutOtherTags(consumed))

-----------------------------------------------------------------------------
ResetPcs == {"reset_listen", "reset_raw_write", "reset_unlisten"}

\* C14: a Reset is transacted as listen(6,7), raw_write of an empty payload,
\* unlisten, in that order with nothing in between, not preceded by an open
\* and not followed by a close; no open or close is ever addressed to
\* sub-address 7; and every token processed with a Reset in the accumulator
\* has run that sequence by the time the loop is back at its head.
C14_ResetSequence ==
    /\ \A i \in 1..Len(bus) :
          (bus[i].op = "listen" /\ bus[i].sa = 7) =>
             /\ bus[i].addr = 6
             /\ i > 1 /\ bus[i - 1].op # "open"
             /\ i + 1 <= Len(bus) => (bus[i + 1].op = "raw_write" /\ bus[i + 1].data = <<>>)
             /\ i + 1 = Len(bus) + 1 => pc = "reset_raw_write"
             /\ i + 2 <= Len(bus) => bus[i + 2].op = "unlisten"
             /\ i + 2 = Len(bus) + 1 => pc = "reset_unlisten"
             /\ i + 3 <= Len(bus) => bus[i + 3].op # "close"
             /\ i + 3 = Len(bus) + 1 => pc \notin {"listen", "raw_write", "unlisten", "close"}
    /\ \A i \in 1..Len(bus) : bus[i].op \in {"open", "close"} => bus[i].sa # 7
    /\ command.kind = "Reset" =>
          /\ pc \notin WritePcs
          /\ (pc = "for" /\ consumed # <<>>) =>
                /\ Len(bus) >= 4
                /\ Last(bus).op = "unlisten"
                /\ bus[Len(bus) - 1].op = "raw_write" /\ bus[Len(bus) - 1].data = <<>>
                /\ bus[Len(bus) - 2].op = "listen" /\ bus[Len(bus) - 2].sa = 7
    /\ pc \in ResetPcs => command.kind = "Reset"

\* two tokens have each been answered with a Reset transaction
C14_Witness ==
    /\ command.kind = "Reset"
    /\ pc = "for"
    /\ Len(consumed) = 2
    /\ Len(bus) = 7
    /\ OpCount(bus, "open") = 0 /\ OpCount(bus, "close") = 0

-----------------------------------------------------------------------------
\* the logical channels open after the bus operations b
OpenChannels(b) ==
    Cardinality({i \in 1..Len(b) : b[i].op = "open" /\ b[i].res = 0}) - OpCount(b, "close")

\* C15: at most one channel is open at any time, and one is open exactly
\* while the thread is between a successful open and its close; a token is
\* consumed only at the head of the loop, with no channel open and without
\* any bus operation; during a transaction no token is consumed; after the
\* close the thread is back at the head of the loop, from where the only
\* step that consumes no token ends the loop, so a transaction starts only
\* by consuming one more token.
C15_StrictlySequential ==
    /\ [](/\ OpenChannels(bus) \in {0, 1}
          /\ OpenChannels(bus) = 1 <=> pc \in {"listen", "raw_write", "unlisten", "close"})
    /\ [][ /\ consumed' # consumed =>
                 /\ pc = "for"
                 /\ Len(consumed') = Len(consumed) + 1
                 /\ bus' = bus
                 /\ OpenChannels(bus) = 0
                 /\ Last(bus).op \in {"driver_open_ex", "close"}
                 /\ pc' \in {"for", "open", "drop"}
           /\ pc \in WritePcs => consumed' = consumed
           /\ pc = "close" => pc' = "for"
           /\ (pc = "for" /\ consumed' = consumed) => (pc' = "drop" /\ bus' = bus)
           /\ (bus' # bus /\ Last(bus').op = "open") =>
                 (pc = "open" /\ Last(bus).op \in {"driver_open_ex", "close"}) ]_vars

\* three tokens, two of them transacted one after the other
C15_Witness ==
    /\ pc = "for"
    /\ Len(consumed) = 3
    /\ Len(bus) = 11
    /\ OpenChannels(bus) = 0
    /\ bus[6].op = "close" /\ bus[7].op = "open"

-----------------------------------------------------------------------------
\* after the last replacing tool-state token only X field tokens, or only Y
\* field tokens, or nothing, has arrived
OneAxisSince(h) ==
    /\ LastReplace(h) > 0
    /\ \/ \A i \in Since(h) : h[i].tok = "Field" /\ h[i].letters = "X"
       \/ \A i \in Since(h) : h[i].tok = "Field" /\ h[i].letters = "Y"

\* C16: every step that ends with such a stream raises no panic, leaves the
\* thread at the loop head or on its way out, and issues no bus operation
\* other than the closing of the adapter that ends the run.
C16_IncompleteDropped ==
    [][ OneAxisSince(consumed') =>
           /\ panic' = NoPanic
           /\ pc' \in {"for", "drop", "done"}
           /\ IF pc' = "done"
              THEN pc = "drop" /\ bus' = Append(bus, BusOp("driver_close", 0, 0, <<>>, 0))
              ELSE bus' = bus ]_vars

\* a Move was transacted, then a Draw received only its X and the stream ended
C16_Witness ==
    /\ pc = "done"
    /\ panic = NoPanic
    /\ consumed = <<X(57), Y(32), ToolState(0), X(100)>>
    /\ Len(bus) = 7
    /\ Last(bus).op = "driver_close"

-----------------------------------------------------------------------------
\* the positions of h after whose token both coordinates have been set since
\* the last replacement, the token not being a fatal one
ReadyIdx(h) ==
    {i \in 1..Len(h) : /\ XCalled(SubSeq(h, 1, i))
                       /\ YCalled(SubSeq(h, 1, i))
                       /\ ~UnrecognisedToolState(h[i])}

\* the variant the history says the accumulator is: the initial Move, or
\* what the last replacing tool-state token made it
KindSince(h) ==
    IF LastReplace(h) = 0 THEN "Move"
    ELSE IF h[LastReplace(h)].v = 0 THEN "Draw" ELSE "Move"

\* the coordinate a float token of that many tenths stores
CoordOf(tenths) == IF tenths < 0 THEN 0 ELSE tenths \div 10

\* C17: the transactions started so far are as many as the tokens after
\* whose processing the accumulator was ready (less the one about to be
\* opened), whatever kind of token that was; a run that no failed open
\* ended has completed that many; and the payload just written pairs the
\* latest X value with the latest Y value since the last replacement, the
\* stale one included.
C17_TransactionPerReadyToken ==
    /\ OpCount(bus, "open") =
          Cardinality(ReadyIdx(consumed)) - (IF pc = "open" THEN 1 ELSE 0)
    /\ (pc = "done" /\ panic.msg # "failed to open address") =>
          OpCount(bus, "close") = Cardinality(ReadyIdx(consumed))
    /\ (bus # <<>> /\ Last(bus).op = "raw_write") =>
          /\ Len(consumed) \in ReadyIdx(consumed)
          /\ IF KindSince(consumed) = "Move"
             THEN IsLine(Last(bus).data, <<77, 44>>, CoordOf(LastXToken(consumed).v),
                         CoordOf(LastYToken(consumed).v), <<10, 0>>)
             ELSE IsLine(Last(bus).data, <<68, 44>>, CoordOf(LastXToken(consumed).v),
                         CoordOf(LastYToken(consumed).v), <<0>>)

\* X alone on a ready accumulator: the second payload is M,10,3 with the
\* stale y of the first
C17_Witness ==
    /\ consumed = <<X(57), Y(32), X(100)>>
    /\ Len(bus) = 9
    /\ bus[4].data = <<77, 44, 53, 44, 51, 10, 0>>
    /\ Last(bus) = BusOp("raw_write", 0, 0, <<77, 44, 49, 48, 44, 51, 10, 0>>, 0)

-----------------------------------------------------------------------------
\* C18: as long as no tool-state token has replaced it the accumulator is a
\* Move; X and Y tokens arriving then are transacted, not dropped, and every
\* payload written starts with M.
C18_StartsAsMove ==
    LastReplace(consumed) = 0 =>
        /\ command.kind = "Move"
        /\ \A i \in 1..Len(bus) : bus[i].op = "raw_write" => bus[i].data[1] = 77
        /\ (XCalled(consumed) /\ YCalled(consumed)) =>
              (pc = "open" \/ OpCount(bus, "open") >= 1)

\* [X(10.0), Y(20.0)] with no tool-state token has written M,10,20
C18_Witness ==
    /\ consumed = <<X(100), Y(200)>>
    /\ Len(bus) = 4
    /\ Last(bus).op = "raw_write"
    /\ Last(bus).data = <<77, 44, 49, 48, 44, 50, 48, 10, 0>>

-----------------------------------------------------------------------------
\* C19: the accumulator is always a Move or a Draw; the thread never enters
\* the Reset arm; no logged bus operation is addressed to sub-address 7; and
\* every raw_write comes second after a successful open of (6,1).
C19_NeverReset ==
    /\ command.kind \in {"Move", "Draw"}
    /\ pc \notin ResetPcs
    /\ \A i \in 1..Len(bus) :
          /\ bus[i].sa # 7
          /\ bus[i].op = "raw_write" =>
                /\ i >= 3
                /\ bus[i - 2].op = "open" /\ bus[i - 2].res = 0
                /\ bus[i - 2].addr = 6 /\ bus[i - 2].sa = 1

\* both tool states have been seen and a Draw has been written
C19_Witness ==
    /\ Len(consumed) = 4
    /\ consumed[1] = ToolState(1) /\ consumed[2] = ToolState(0)
    /\ command.kind = "Draw"
    /\ Last(bus).op = "raw_write"

-----------------------------------------------------------------------------
\* a field token whose value has the wrong type for its tag
WrongType(t) ==
    /\ t.tok = "Field"
    /\ \/ t.letters \in {"X", "Y"} /\ t.vt # "Float"
       \/ t.letters = "Z" /\ t.vt # "Integer"

\* C20: consuming a field token whose value has the wrong type for its tag
\* leaves the accumulator as it was and raises no panic: the loop goes on,
\* to its head or into the transaction of the unchanged accumulator.
C20_WrongTypeIgnored ==
    [][ (consumed' # consumed /\ WrongType(Last(consumed'))) =>
           /\ command' = command
           /\ panic' = NoPanic
           /\ pc' \in {"for", "open"}
           /\ bus' = bus ]_vars

\* a Z token carrying the float 2.0 arrived on a Draw that has only its x
C20_Witness ==
    /\ consumed = <<ToolState(0), X(57), Field("Z", "Float", 20)>>
    /\ command = [kind |-> "Draw", x |-> <<5>>, y |-> <<>>]
    /\ pc = "for"
    /\ panic = NoPanic

=============================================================================
